---- MODULE Spec2Model ----
(***************************************************************************)
(* Shading pipeline of the solar-system renderer (src/src/shaders.rs):     *)
(* vertex_shader, fragment_shader and the four archetype shaders, with     *)
(* the colour helpers lerp_color and blend_colors.                         *)
(*                                                                         *)
(* f32 values are modelled bit-exactly for finite, normal numbers: a       *)
(* record [s, m, e] stands for (-1)^s * m * 2^e with 2^23 <= m < 2^24 (or  *)
(* m = 0).  +, -, *, / and sqrt round to nearest, ties to even, as IEEE    *)
(* 754 binary32 does.  Infinities, NaN, subnormals and the sign of zero    *)
(* are outside the model: the inputs are drawn from finite sets whose      *)
(* images stay far from the exponent limits.                               *)
(***************************************************************************)
EXTENDS Integers, Sequences, FiniteSets, TLC

VARIABLES
   uniforms,      \* the Uniforms of the draw call
   shader_type,   \* the ShaderType of the mesh being drawn
   shaded,        \* fragment_shader calls made so far: <<[fragment, color], ...>>
   noise_built,   \* FastNoiseLite values constructed so far
   vertex,        \* input of vertex_shader
   vertex_ret,    \* its result
   col_a, col_b,  \* inputs of lerp_color / blend_colors
   fac1, fac2,
   color_ret      \* their results

vars == <<uniforms, shader_type, shaded, noise_built, vertex, vertex_ret,
          col_a, col_b, fac1, fac2, color_ret>>

\* ------------------------------------------------------------------------
\* f32 arithmetic
\* ------------------------------------------------------------------------

\* Rust computes a `let` binding, or an argument, before what uses it:
\* F is applied to the value of v, not to the expression
Eager(v, F(_)) == CHOOSE r \in {F(x) : x \in {v}} : TRUE

Eager2(v, w, F(_, _)) == CHOOSE r \in {F(x, y) : x \in {v}, y \in {w}} : TRUE

Eager3(v, w, u, F(_, _, _)) ==
   CHOOSE r \in {F(x, y, z) : x \in {v}, y \in {w}, z \in {u}} : TRUE

Pow2(n) == 2 ^ n

\* number of significant bits of a natural number below 2^31
BitLen8(n) ==
   IF n < 16
   THEN IF n < 4 THEN (IF n < 1 THEN 0 ELSE IF n < 2 THEN 1 ELSE 2)
                 ELSE (IF n < 8 THEN 3 ELSE 4)
   ELSE IF n < 64 THEN (IF n < 32 THEN 5 ELSE 6)
                  ELSE (IF n < 128 THEN 7 ELSE 8)

BitLen(n) ==
   IF n < 65536
   THEN IF n < 256 THEN BitLen8(n) ELSE 8 + BitLen8(n \div 256)
   ELSE IF n < 16777216 THEN 16 + BitLen8(n \div 65536) ELSE 24 + BitLen8(n \div 16777216)

FZero == [s |-> 0, m |-> 0, e |-> 0]

\* the 24 leading bits q of M, the bits rem below them and half an ulp:
\* round to nearest, ties to even; a carry out of 24 bits renormalises
RoundPick(s, q, rem, half, E) ==
   IF rem > half \/ (rem = half /\ q % 2 = 1)
   THEN IF q + 1 = Pow2(24) THEN [s |-> s, m |-> Pow2(23), e |-> E + 1]
                            ELSE [s |-> s, m |-> q + 1, e |-> E]
   ELSE [s |-> s, m |-> q, e |-> E]

\* M has L significant bits
RoundBits(s, M, E, L) ==
   IF L <= 24 THEN [s |-> s, m |-> M * Pow2(24 - L), e |-> E - (24 - L)]
   ELSE RoundPick(s, M \div Pow2(L - 24), M % Pow2(L - 24), Pow2(L - 25), E + (L - 24))

\* round the exact value (-1)^s * M * 2^E (0 <= M < 2^31) to binary32
RoundNorm(s, M, E) == IF M = 0 THEN FZero ELSE RoundBits(s, M, E, BitLen(M))

\* as RoundNorm, for an M that was truncated: rest # 0 says bits were lost
\* below M, which then counts as odd (sticky bit)
RoundSticky(s, M, rest, E) ==
   RoundNorm(s, IF rest # 0 /\ M % 2 = 0 THEN M + 1 ELSE M, E)

FromInt(n) == RoundNorm(IF n < 0 THEN 1 ELSE 0, IF n < 0 THEN -n ELSE n, 0)

Fneg(x) == IF x.m = 0 THEN x ELSE [x EXCEPT !.s = 1 - x.s]

Fabs(x) == [x EXCEPT !.s = 0]

\* |x| < |y|
MagLt(x, y) ==
   IF y.m = 0 THEN FALSE
   ELSE IF x.m = 0 THEN TRUE
   ELSE x.e < y.e \/ (x.e = y.e /\ x.m < y.m)

Flt(x, y) ==
   IF x.s = 1 /\ y.s = 0 THEN x.m # 0 \/ y.m # 0
   ELSE IF x.s = 0 /\ y.s = 1 THEN FALSE
   ELSE IF x.s = 0 THEN MagLt(x, y)
   ELSE MagLt(y, x)

Fgt(x, y) == Flt(y, x)

Fle(x, y) == ~Flt(y, x)

\* x.m and y.m with three guard bits, y shifted right by d to x's exponent;
\* the bits shifted out leave a sticky bit
AddAligned(x, y, d) ==
   RoundSticky(x.s,
               IF x.s = y.s THEN x.m * 8 + (y.m * 8) \div Pow2(d)
                            ELSE x.m * 8 - (y.m * 8) \div Pow2(d)
                                 - (IF (y.m * 8) % Pow2(d) # 0 THEN 1 ELSE 0),
               (y.m * 8) % Pow2(d),
               x.e - 3)

\* x + y, |x| >= |y|, both nonzero
AddOrdered(x, y) == AddAligned(x, y, IF x.e - y.e > 27 THEN 27 ELSE x.e - y.e)

Fadd(x, y) ==
   IF x.m = 0 THEN y
   ELSE IF y.m = 0 THEN x
   ELSE IF MagLt(x, y) THEN AddOrdered(y, x) ELSE AddOrdered(x, y)

Fsub(x, y) == Fadd(x, Fneg(y))

\* the 48-bit product as high * 2^24 + low: keep 26 bits and a sticky bit
MulRound(s, high, low, E) ==
   IF high >= Pow2(23)
   THEN RoundSticky(s, high * 4 + low \div Pow2(22), low % Pow2(22), E + 22)
   ELSE RoundSticky(s, high * 8 + low \div Pow2(21), low % Pow2(21), E + 21)

\* hh * 2^24 + mid * 2^12 + lo
MulSum(s, hh, mid, lo, E) ==
   MulRound(s,
            hh + mid \div 4096 + (lo + (mid % 4096) * 4096) \div Pow2(24),
            (lo + (mid % 4096) * 4096) % Pow2(24),
            E)

\* the product of the significands (ah * 2^12 + al) and (bh * 2^12 + bl)
MulLimbs(s, ah, al, bh, bl, E) == MulSum(s, ah * bh, ah * bl + al * bh, al * bl, E)

\* x * y: the 48-bit product is formed from 12-bit limbs
Fmul(x, y) ==
   IF x.m = 0 \/ y.m = 0 THEN FZero
   ELSE MulLimbs(IF x.s = y.s THEN 0 ELSE 1,
                 x.m \div 4096, x.m % 4096, y.m \div 4096, y.m % 4096, x.e + y.e)

\* long division: k more quotient bits from quotient q and remainder r
DivQ(q, r, d, k) == q * Pow2(k) + (r * Pow2(k)) \div d

DivR(r, d, k) == (r * Pow2(k)) % d

DivStep4(s, q, r, d, E) == RoundSticky(s, DivQ(q, r, d, 6), DivR(r, d, 6), E)

DivStep3(s, q, r, d, E) == DivStep4(s, DivQ(q, r, d, 6), DivR(r, d, 6), d, E)

DivStep2(s, q, r, d, E) == DivStep3(s, DivQ(q, r, d, 7), DivR(r, d, 7), d, E)

DivStep1(s, q, r, d, E) == DivStep2(s, DivQ(q, r, d, 7), DivR(r, d, 7), d, E)

\* x / y: 26 quotient bits after the leading one, by long division in
\* chunks of at most 7 bits, and a sticky bit for the remainder
Fdiv(x, y) ==
   IF x.m = 0 THEN FZero
   ELSE IF x.s = y.s THEN DivStep1(0, x.m \div y.m, x.m % y.m, y.m, x.e - y.e - 26)
                     ELSE DivStep1(1, x.m \div y.m, x.m % y.m, y.m, x.e - y.e - 26)

\* one Newton step toward the integer square root of N, from above
NewtonNext(x, y) == IF y < x THEN y ELSE x

NewtonStep(N, x) == NewtonNext(x, (x + N \div x) \div 2)

\* the root of the leading 15 bits of N
IsqrtHigh(h) == CHOOSE k \in 90..181 : k * k <= h /\ h < (k + 1) * (k + 1)

\* floor(sqrt(N)), 2^29 <= N < 2^31: the root of the leading 15 bits gives
\* a start within 256 above the root, and three Newton steps reach it
Isqrt(N) ==
   NewtonStep(N, NewtonStep(N, NewtonStep(N, (IsqrtHigh(N \div 65536) + 1) * 256)))

\* the root of N * 2^22 is a * 2^11 + b: b0 is b or b + 1, t = 2^22 * (N - a^2) - 2^12 * a * b0
SqrtLow(a, b0, t, E) ==
   IF b0 * b0 <= t THEN RoundSticky(0, a * 2048 + b0, t - b0 * b0, E)
                   ELSE RoundSticky(0, a * 2048 + b0 - 1, 1, E)

SqrtRem(N, a, E) ==
   SqrtLow(a, ((N - a * a) * 1024) \div a, 4096 * (((N - a * a) * 1024) % a), E)

\* sqrt(n * 2^e2), e2 even: the integer square root of n * 2^28 by the root
\* a of n * 64 and the remainder; sticky when inexact
SqrtEven(n, e2) == SqrtRem(n * 64, Isqrt(n * 64), (e2 \div 2) - 14)

Fsqrt(x) ==
   IF x.m = 0 THEN FZero
   ELSE IF x.e % 2 # 0 THEN SqrtEven(x.m * 2, x.e - 1) ELSE SqrtEven(x.m, x.e)

\* nearest binary32 to n / d  (0 < d <= 100, |n| small)
FromRat(n, d) == Fdiv(FromInt(n), FromInt(d))

F0 == FZero

F1 == FromInt(1)

\* f32::clamp(lo, hi)
Fclamp(x, lo, hi) == IF Flt(x, lo) THEN lo ELSE IF Fgt(x, hi) THEN hi ELSE x

\* `x as u8`: truncation toward zero, saturating at 0 and 255
ToU8(x) ==
   IF x.m = 0 \/ x.s = 1 THEN 0
   ELSE IF x.e >= -15 THEN 255
   ELSE IF x.e < -24 THEN 0
   ELSE x.m \div Pow2(-x.e)

\* ------------------------------------------------------------------------
\* Color (crate::color): three 8-bit channels, packed 24-bit form
\* ------------------------------------------------------------------------

Color_new(r, g, b) == [r |-> r, g |-> g, b |-> b]

to_hex(c) == c.r * 65536 + c.g * 256 + c.b

Black == Color_new(0, 0, 0)

from_hex(h) == Color_new((h \div 65536) % 256, (h \div 256) % 256, h % 256)

\* Color * f32: channel-wise, clamped to [0, 255]
Color_mul(c, k) ==
   LET scaled(col) ==
          Color_new(ToU8(Fclamp(Fmul(FromInt(col.r), k), F0, FromInt(255))),
                    ToU8(Fclamp(Fmul(FromInt(col.g), k), F0, FromInt(255))),
                    ToU8(Fclamp(Fmul(FromInt(col.b), k), F0, FromInt(255))))
   IN  Eager(c, scaled)

\* ------------------------------------------------------------------------
\* Colour helpers
\* ------------------------------------------------------------------------

lerp_color(a, b, t0) ==
   LET mix(t) ==
          LET om == Fsub(F1, t)
          IN  Color_new(
                 ToU8(Fadd(Fmul(FromInt(to_hex(a)), om), Fmul(FromInt(to_hex(b) \div 65536), t))),
                 ToU8(Fadd(Fmul(FromInt(to_hex(a) \div 256), om), Fmul(FromInt((to_hex(b) \div 256) % 256), t))),
                 ToU8(Fadd(Fmul(FromInt(to_hex(a) % 256), om), Fmul(FromInt(to_hex(b) % 256), t))))
   IN  Eager(Fclamp(t0, F0, F1), mix)

blend_colors(base, overlay, factor0) ==
   LET mix(factor, base1, overlay1) ==
          LET base_hex    == to_hex(base1)
              overlay_hex == to_hex(overlay1)
              r1 == FromInt((base_hex \div 65536) % 256)
              g1 == FromInt((base_hex \div 256) % 256)
              b1 == FromInt(base_hex % 256)
              r2 == FromInt((overlay_hex \div 65536) % 256)
              g2 == FromInt((overlay_hex \div 256) % 256)
              b2 == FromInt(overlay_hex % 256)
              om == Fsub(F1, factor)
          IN  Color_new(ToU8(Fadd(Fmul(r1, om), Fmul(r2, factor))),
                        ToU8(Fadd(Fmul(g1, om), Fmul(g2, factor))),
                        ToU8(Fadd(Fmul(b1, om), Fmul(b2, factor))))
   IN  Eager3(Fclamp(factor0, F0, F1), base, overlay, mix)

\* ------------------------------------------------------------------------
\* Matrices (nalgebra): Mat4 is stored column-major, m[i] is linear indexing
\* ------------------------------------------------------------------------

\* element (r, c), 0-based, of a column-major 4x4 matrix kept as a 16-tuple
Mat4At(m, r, c) == m[c * 4 + r + 1]

\* linear index m[i] of the source, 0-based
Mat4Idx(m, i) == m[i + 1]

Dot4(a1, b1, a2, b2, a3, b3, a4, b4) ==
   Fadd(Fadd(Fadd(Fmul(a1, b1), Fmul(a2, b2)), Fmul(a3, b3)), Fmul(a4, b4))

\* element (r, c), 0-based, of the product A * B
Mat4MulAt(A, B, r, c) ==
   Dot4(Mat4At(A, r, 0), Mat4At(B, 0, c), Mat4At(A, r, 1), Mat4At(B, 1, c),
        Mat4At(A, r, 2), Mat4At(B, 2, c), Mat4At(A, r, 3), Mat4At(B, 3, c))

Mat4Mul(A0, B0) ==
   LET product(A, B) ==
          <<Mat4MulAt(A, B, 0, 0), Mat4MulAt(A, B, 1, 0), Mat4MulAt(A, B, 2, 0), Mat4MulAt(A, B, 3, 0),
            Mat4MulAt(A, B, 0, 1), Mat4MulAt(A, B, 1, 1), Mat4MulAt(A, B, 2, 1), Mat4MulAt(A, B, 3, 1),
            Mat4MulAt(A, B, 0, 2), Mat4MulAt(A, B, 1, 2), Mat4MulAt(A, B, 2, 2), Mat4MulAt(A, B, 3, 2),
            Mat4MulAt(A, B, 0, 3), Mat4MulAt(A, B, 1, 3), Mat4MulAt(A, B, 2, 3), Mat4MulAt(A, B, 3, 3)>>
   IN  Eager2(A0, B0, product)

Mat4MulVecAt(A, v, r) ==
   Dot4(Mat4At(A, r, 0), v[1], Mat4At(A, r, 1), v[2], Mat4At(A, r, 2), v[3], Mat4At(A, r, 3), v[4])

Mat4MulVec(A0, v0) ==
   LET product(A, v) ==
          <<Mat4MulVecAt(A, v, 0), Mat4MulVecAt(A, v, 1), Mat4MulVecAt(A, v, 2), Mat4MulVecAt(A, v, 3)>>
   IN  Eager2(A0, v0, product)

\* Mat3::new takes its nine arguments row by row; a Mat3 is <<row0, row1, row2>>
Mat3_new(m11, m12, m13, m21, m22, m23, m31, m32, m33) ==
   <<(<<m11, m12, m13>>), (<<m21, m22, m23>>), (<<m31, m32, m33>>)>>

Mat3_identity == Mat3_new(F1, F0, F0, F0, F1, F0, F0, F0, F1)

Mat3_transpose(A) ==
   Mat3_new(A[1][1], A[2][1], A[3][1], A[1][2], A[2][2], A[3][2], A[1][3], A[2][3], A[3][3])

\* inverse by minors and determinant; fails when the determinant is zero
Mat3_try_inverse(A) ==
   LET m11 == A[1][1]
       m12 == A[1][2]
       m13 == A[1][3]
       m21 == A[2][1]
       m22 == A[2][2]
       m23 == A[2][3]
       m31 == A[3][1]
       m32 == A[3][2]
       m33 == A[3][3]
       minor_m12_m23 == Fsub(Fmul(m22, m33), Fmul(m32, m23))
       minor_m11_m23 == Fsub(Fmul(m21, m33), Fmul(m31, m23))
       minor_m11_m22 == Fsub(Fmul(m21, m32), Fmul(m31, m22))
       inverse(determinant) ==
          IF determinant.m = 0 THEN [some |-> FALSE]
          ELSE [some |-> TRUE,
                val  |-> Mat3_new(
                   Fdiv(minor_m12_m23, determinant),
                   Fdiv(Fsub(Fmul(m13, m32), Fmul(m33, m12)), determinant),
                   Fdiv(Fsub(Fmul(m12, m23), Fmul(m22, m13)), determinant),
                   Fdiv(Fneg(minor_m11_m23), determinant),
                   Fdiv(Fsub(Fmul(m11, m33), Fmul(m31, m13)), determinant),
                   Fdiv(Fsub(Fmul(m13, m21), Fmul(m23, m11)), determinant),
                   Fdiv(minor_m11_m22, determinant),
                   Fdiv(Fsub(Fmul(m12, m31), Fmul(m32, m11)), determinant),
                   Fdiv(Fsub(Fmul(m11, m22), Fmul(m21, m12)), determinant))]
   IN  Eager(Fadd(Fsub(Fmul(m11, minor_m12_m23), Fmul(m12, minor_m11_m23)),
                  Fmul(m13, minor_m11_m22)), inverse)

Mat3MulVecAt(A, v, r) ==
   Fadd(Fadd(Fmul(A[r][1], v[1]), Fmul(A[r][2], v[2])), Fmul(A[r][3], v[3]))

Mat3MulVec(A0, v0) ==
   LET product(A, v) == <<Mat3MulVecAt(A, v, 1), Mat3MulVecAt(A, v, 2), Mat3MulVecAt(A, v, 3)>>
   IN  Eager2(A0, v0, product)

\* ------------------------------------------------------------------------
\* Uniforms and the vertex shader
\* ------------------------------------------------------------------------

\* FastNoiseLite::new() followed by set_noise_type(OpenSimplex2)
create_noise ==
   [noise_type |-> "OpenSimplex2", fractal_type |-> "None", octaves |-> 3,
    lacunarity |-> FromInt(2), gain |-> FromRat(1, 2), seed |-> 1337]

Uniforms_new(model_matrix, view_matrix, projection_matrix, viewport_matrix, time) ==
   [model_matrix |-> model_matrix, view_matrix |-> view_matrix,
    projection_matrix |-> projection_matrix, viewport_matrix |-> viewport_matrix,
    time |-> time, noise |-> create_noise]

\* the 3x3 matrix built at lines 65-69
model_mat3(u) ==
   Mat3_new(Mat4Idx(u.model_matrix, 0), Mat4Idx(u.model_matrix, 1), Mat4Idx(u.model_matrix, 2),
            Mat4Idx(u.model_matrix, 4), Mat4Idx(u.model_matrix, 5), Mat4Idx(u.model_matrix, 6),
            Mat4Idx(u.model_matrix, 8), Mat4Idx(u.model_matrix, 9), Mat4Idx(u.model_matrix, 10))

\* Option::unwrap_or
unwrap_or(opt, default) == IF opt.some THEN opt.val ELSE default

normal_matrix(u) ==
   unwrap_or(Mat3_try_inverse(Mat3_transpose(model_mat3(u))), Mat3_identity)

\* lines 44-62: clip space, perspective division, viewport transform
viewport_transform(v, u) ==
   LET position        == <<v.position[1], v.position[2], v.position[3], F1>>
       transformed     == Mat4MulVec(Mat4Mul(Mat4Mul(u.projection_matrix, u.view_matrix),
                                             u.model_matrix), position)
       ndc_position(clip) ==
          LET w == clip[4]
          IN  <<Fdiv(clip[1], w), Fdiv(clip[2], w), Fdiv(clip[3], w), F1>>
   IN  Mat4MulVec(u.viewport_matrix, ndc_position(transformed))

\* variant: the screen-space w is stored where z belongs
vertex_shader_w_for_z(v, u) ==
   LET output(screen_position) ==
          [position             |-> v.position,
           normal               |-> v.normal,
           tex_coords           |-> v.tex_coords,
           color                |-> v.color,
           transformed_position |-> <<screen_position[1], screen_position[2], screen_position[4]>>,
           transformed_normal   |-> Mat3MulVec(normal_matrix(u), v.normal)]
   IN  output(viewport_transform(v, u))

vertex_shader(v, u) ==
   LET output(screen_position) ==
          [position             |-> v.position,
           normal               |-> v.normal,
           tex_coords           |-> v.tex_coords,
           color                |-> v.color,
           transformed_position |-> <<screen_position[1], screen_position[2], screen_position[3]>>,
           transformed_normal   |-> Mat3MulVec(normal_matrix(u), v.normal)]
   IN  output(viewport_transform(v, u))

\* ------------------------------------------------------------------------
\* Library functions of f32 and of the noise generator.  Their results are
\* not fixed bit for bit by their documentation; each is represented by a
\* deterministic function of its arguments.
\* ------------------------------------------------------------------------

\* value of x times 2^k, truncated toward zero, as an integer
ToFixed(x, k) ==
   LET sh  == x.e + k
       mag == IF x.m = 0 THEN 0
              ELSE IF sh >= 0 THEN x.m * Pow2(sh)
              ELSE IF sh < -24 THEN 0
              ELSE x.m \div Pow2(-sh)
   IN  IF x.s = 1 THEN -mag ELSE mag

PiFixed == 12868

\* f32::sin, by Bhaskara's rational approximation on 12-bit fixed point
SinHalf(P) == Fdiv(FromInt(16 * P), FromInt(5 * PiFixed * PiFixed - 4 * P))

SinSigned(neg, val) == IF neg THEN Fneg(val) ELSE val

Fsin(x) ==
   LET sine(y) ==
          SinSigned(y > PiFixed,
                    IF y > PiFixed THEN SinHalf((y - PiFixed) * (2 * PiFixed - y))
                                   ELSE SinHalf(y * (PiFixed - y)))
   IN  Eager(ToFixed(x, 12) % (2 * PiFixed), sine)

\* f32::powi(2)
Fpowi2(x) == Fmul(x, x)

\* f32::powf for the two exponents the shaders use: 3.0 and 0.8
Fpowf(x, p) ==
   IF p = FromInt(3) THEN Fmul(Fmul(x, x), x)
   ELSE LET xi == ToFixed(x, 6)
            r  == CHOOSE q \in 0..64 :
                     /\ q * q * q * q * q <= 64 * xi * xi * xi * xi
                     /\ (q = 64 \/ (q + 1) * (q + 1) * (q + 1) * (q + 1) * (q + 1) > 64 * xi * xi * xi * xi)
        IN  FromRat(r, 64)

\* one sample of the coherent noise with the given seed, in [-1, 1]
gen_noise_single_3d(seed, x, y, z) ==
   LET sample(i, j, k) == FromRat(((seed * 7919 + i * 37 + j * 101 + k * 211) % 201) - 100, 100)
   IN  Eager3(ToFixed(x, 6), ToFixed(y, 6), ToFixed(z, 6), sample)

gen_noise_single_2d(seed, x, y) ==
   LET sample(i, j) == FromRat(((seed * 7919 + i * 37 + j * 101) % 201) - 100, 100)
   IN  Eager2(ToFixed(x, 6), ToFixed(y, 6), sample)

\* 1 / (1 + gain + gain^2 + ...), one term per octave
RECURSIVE FractalAmp(_, _, _, _)
FractalAmp(gain, amp, acc, n) ==
   IF n = 0 THEN acc ELSE FractalAmp(gain, Fmul(amp, gain), Fadd(acc, amp), n - 1)

fractal_bounding(n) == Fdiv(F1, FractalAmp(Fabs(n.gain), Fabs(n.gain), F1, n.octaves - 1))

RECURSIVE gen_fractal_fbm_3d(_, _, _, _, _, _, _, _)
gen_fractal_fbm_3d(n, seed, x, y, z, amp, sum, i) ==
   IF i = n.octaves THEN sum
   ELSE LET octave(sum1, amp1) ==
               gen_fractal_fbm_3d(n, seed + 1,
                                  Fmul(x, n.lacunarity), Fmul(y, n.lacunarity), Fmul(z, n.lacunarity),
                                  amp1, sum1, i + 1)
        IN  Eager2(Fadd(sum, Fmul(gen_noise_single_3d(seed, x, y, z), amp)), Fmul(amp, n.gain), octave)

get_noise_3d(n, x, y, z) ==
   IF n.fractal_type = "FBm"
   THEN gen_fractal_fbm_3d(n, n.seed, x, y, z, fractal_bounding(n), F0, 0)
   ELSE gen_noise_single_3d(n.seed, x, y, z)

RECURSIVE gen_fractal_fbm_2d(_, _, _, _, _, _, _)
gen_fractal_fbm_2d(n, seed, x, y, amp, sum, i) ==
   IF i = n.octaves THEN sum
   ELSE LET octave(sum1, amp1) ==
               gen_fractal_fbm_2d(n, seed + 1, Fmul(x, n.lacunarity), Fmul(y, n.lacunarity),
                                  amp1, sum1, i + 1)
        IN  Eager2(Fadd(sum, Fmul(gen_noise_single_2d(seed, x, y), amp)), Fmul(amp, n.gain), octave)

get_noise_2d(n, x, y) ==
   IF n.fractal_type = "FBm"
   THEN gen_fractal_fbm_2d(n, n.seed, x, y, fractal_bounding(n), F0, 0)
   ELSE gen_noise_single_2d(n.seed, x, y)

\* variant: the seed of the field follows the number of fields built so far
create_cloud_noise_counted ==
   [noise_type |-> "OpenSimplex2", fractal_type |-> "FBm", octaves |-> 4,
    lacunarity |-> FromInt(2), gain |-> FromRat(1, 2), seed |-> 1337 + noise_built]

create_cloud_noise ==
   [noise_type |-> "OpenSimplex2", fractal_type |-> "FBm", octaves |-> 4,
    lacunarity |-> FromInt(2), gain |-> FromRat(1, 2), seed |-> 1337]

\* ------------------------------------------------------------------------
\* Archetype shaders
\* ------------------------------------------------------------------------

\* the layers sun_shader composites (lines 149-201)
sun_layers(fragment, u) ==
   LET position == fragment.vertex_position
       px       == position[1]
       py       == position[2]
       pz       == position[3]
       time     == u.time
       core_color == from_hex(\hFFFF00)
       mid_color  == from_hex(\hFF6600)
       edge_color == from_hex(\hFF0000)
       \* layer 1: radial gradient
       gradient(distance_from_center) ==
          IF Flt(distance_from_center, FromRat(1, 2))
          THEN lerp_color(core_color, mid_color, Fmul(distance_from_center, FromInt(2)))
          ELSE lerp_color(mid_color, edge_color,
                          Fmul(Fsub(distance_from_center, FromRat(1, 2)), FromInt(2)))
       \* layer 2: plasma
       plasma_zoom  == FromInt(8)
       plasma_speed == FromRat(3, 10)
       plasma_color == from_hex(\hFFAA00)
       plasma(base_color, plasma_noise) ==
          LET plasma_intensity == Fmul(Fadd(plasma_noise, F1), FromRat(1, 2))
          IN  blend_colors(base_color, plasma_color, Fmul(plasma_intensity, FromRat(3, 10)))
       \* layers 3 and 4: spots and edge glow
       spot_zoom == FromInt(3)
       spots(with_plasma, spot_noise, distance_from_center) ==
          IF Fgt(spot_noise, FromRat(1, 2))
          THEN LET spot_factor == Fmul(Fsub(spot_noise, FromRat(1, 2)), FromInt(2))
                   dark_spot   == from_hex(\h994400)
                   with_spots  == blend_colors(with_plasma, dark_spot,
                                               Fmul(spot_factor, FromRat(4, 10)))
                   edge_glow   == Fpowf(Fsub(F1, distance_from_center), FromInt(3))
                   glow_color  == from_hex(\hFFFFAA)
               IN  blend_colors(with_spots, glow_color, Fmul(edge_glow, FromRat(3, 10)))
          ELSE with_plasma
       layers(distance_from_center) ==
          spots(plasma(gradient(distance_from_center),
                       get_noise_3d(u.noise,
                          Fadd(Fmul(px, plasma_zoom), Fmul(time, plasma_speed)),
                          Fmul(py, plasma_zoom),
                          Fadd(Fmul(pz, plasma_zoom),
                               Fmul(Fmul(time, plasma_speed), FromRat(1, 2))))),
                get_noise_3d(u.noise,
                   Fmul(px, spot_zoom),
                   Fadd(Fmul(py, spot_zoom), Fmul(time, FromRat(1, 10))),
                   Fmul(pz, spot_zoom)),
                distance_from_center)
   IN  Eager(Fsqrt(Fadd(Fadd(Fmul(px, px), Fmul(py, py)), Fmul(pz, pz))), layers)

\* variant: lit like the planets
sun_shader_lit(fragment, u) == Color_mul(sun_layers(fragment, u), fragment.intensity)

\* the sun returns its layers as they are: no lighting step
sun_shader(fragment, u) == sun_layers(fragment, u)

\* the colour rocky_planet_shader has composited before the lighting at line 283
rocky_planet_layers(fragment, u) ==
   LET position == fragment.vertex_position
       px       == position[1]
       py       == position[2]
       pz       == position[3]
       time     == u.time
       continent_zoom == FromInt(4)
       ocean_color    == from_hex(\h1a4d7a)
       land_color     == from_hex(\h3d8c40)
       mountain_color == from_hex(\h8b7355)
       snow_color     == from_hex(\hf0f0f0)
       \* layer 1: continents and oceans
       continents(continent_noise) ==
          IF Fgt(continent_noise, F0)
          THEN IF Fgt(continent_noise, FromRat(1, 2))
               THEN lerp_color(land_color, mountain_color,
                               Fmul(Fsub(continent_noise, FromRat(1, 2)), FromInt(2)))
               ELSE land_color
          ELSE LET depth      == Fabs(continent_noise)
                   deep_ocean == from_hex(\h0a2342)
               IN  lerp_color(ocean_color, deep_ocean, depth)
       \* layer 2: terrain detail, on land only
       detail_zoom == FromInt(10)
       details(base_color, continent_noise, detail_noise) ==
          IF Fgt(continent_noise, F0)
          THEN LET detail_color == IF Fgt(detail_noise, FromRat(3, 10))
                                   THEN from_hex(\hc2b280)
                                   ELSE from_hex(\h228b22)
               IN  blend_colors(base_color, detail_color,
                                Fmul(Fabs(detail_noise), FromRat(3, 10)))
          ELSE base_color
       land(continent_noise) ==
          details(continents(continent_noise), continent_noise,
                  get_noise_3d(u.noise, Fadd(Fmul(px, detail_zoom), FromInt(100)),
                               Fmul(py, detail_zoom), Fmul(pz, detail_zoom)))
       \* layer 3: polar caps
       polar_threshold == FromRat(7, 10)
       poles(base_color) ==
          IF Fgt(Fabs(py), polar_threshold)
          THEN LET polar_factor == Fdiv(Fsub(Fabs(py), polar_threshold),
                                        Fsub(F1, polar_threshold))
               IN  blend_colors(base_color, snow_color, polar_factor)
          ELSE base_color
       \* layer 4: clouds, sampled from a field built here (line 266)
       cloud_noise == create_cloud_noise
       cloud_zoom  == FromInt(6)
       cloud_speed == FromRat(2, 10)
       clouds(base_color, cloud_value) ==
          IF Fgt(cloud_value, FromRat(1, 2))
          THEN LET cloud_factor == Fmul(Fsub(cloud_value, FromRat(1, 2)), FromInt(2))
                   cloud_color  == from_hex(\hffffff)
               IN  blend_colors(base_color, cloud_color, Fmul(cloud_factor, FromRat(6, 10)))
          ELSE base_color
   IN  clouds(poles(Eager(get_noise_3d(u.noise, Fmul(px, continent_zoom),
                                       Fmul(py, continent_zoom), Fmul(pz, continent_zoom)),
                          land)),
              get_noise_3d(cloud_noise,
                           Fadd(Fmul(px, cloud_zoom), Fmul(time, cloud_speed)),
                           Fmul(py, cloud_zoom), Fmul(pz, cloud_zoom)))

rocky_planet_shader(fragment, u) ==
   LET light_intensity == fragment.intensity
   IN  Color_mul(rocky_planet_layers(fragment, u), light_intensity)

\* band_position and band_noise of gas_giant_shader (lines 294-299)
gas_band_position(fragment) == Fmul(fragment.vertex_position[2], FromInt(15))

gas_band_noise(fragment, u) ==
   get_noise_2d(u.noise, gas_band_position(fragment), Fmul(u.time, FromRat(1, 10)))

\* band_value (line 307)
gas_band_value(fragment, u) ==
   Fmul(Fadd(Fsin(gas_band_position(fragment)), F1), FromRat(1, 2))

\* the four gradient segments (lines 308-320), from a band value
gas_band_color(band_value) ==
   LET color1 == from_hex(\hd4a574)
       color2 == from_hex(\hc17f4a)
       color3 == from_hex(\h8b6239)
       color4 == from_hex(\he6c9a8)
   IN  IF Flt(band_value, FromRat(1, 4))
       THEN lerp_color(color1, color2, Fmul(band_value, FromInt(4)))
       ELSE IF Flt(band_value, FromRat(1, 2))
       THEN lerp_color(color2, color3, Fmul(Fsub(band_value, FromRat(1, 4)), FromInt(4)))
       ELSE IF Flt(band_value, FromRat(3, 4))
       THEN lerp_color(color3, color4, Fmul(Fsub(band_value, FromRat(1, 2)), FromInt(4)))
       ELSE lerp_color(color4, color1, Fmul(Fsub(band_value, FromRat(3, 4)), FromInt(4)))

gas_base_color(fragment, u) == gas_band_color(gas_band_value(fragment, u))

\* the colour gas_giant_shader has composited before the lighting at lines 369, 371
gas_giant_layers(fragment, u) ==
   LET position == fragment.vertex_position
       px       == position[1]
       py       == position[2]
       pz       == position[3]
       time     == u.time
       band_position == gas_band_position(fragment)
       \* layer 2: turbulence over the bands
       turbulence_zoom == FromInt(8)
       turbulence(turbulence_noise) ==
          LET base_color       == gas_base_color(fragment, u)
              turbulent_offset == Fmul(turbulence_noise, FromRat(3, 10))
              turbulent_band   == Fmul(Fadd(Fsin(Fadd(band_position, turbulent_offset)), F1),
                                       FromRat(1, 2))
              turbulence_color == IF Fgt(turbulent_band, FromRat(6, 10))
                                  THEN from_hex(\ha0785a)
                                  ELSE from_hex(\he8d4b8)
          IN  blend_colors(base_color, turbulence_color,
                           Fmul(Fabs(turbulence_noise), FromRat(4, 10)))
       \* layers 3 and 4: the great spot and its fine detail
       spot_center_x == FromRat(3, 10)
       spot_center_y == FromRat(2, 10)
       spot(with_turbulence, distance_to_spot) ==
          IF Flt(distance_to_spot, FromRat(3, 10))
          THEN LET spot_noise == get_noise_3d(u.noise,
                      Fadd(Fmul(px, FromInt(5)), Fmul(time, FromRat(1, 20))),
                      Fmul(py, FromInt(5)), Fmul(pz, FromInt(5)))
                   spot_factor == Fmul(Fsub(F1, Fdiv(distance_to_spot, FromRat(3, 10))),
                                       Fmul(Fadd(spot_noise, F1), FromRat(1, 2)))
                   spot_color  == from_hex(\hc74440)
                   with_spot   == blend_colors(with_turbulence, spot_color,
                                               Fmul(spot_factor, FromRat(7, 10)))
                   detail_zoom  == FromInt(20)
                   detail_noise == get_noise_3d(u.noise,
                      Fsub(Fmul(px, detail_zoom), Fmul(time, FromRat(2, 10))),
                      Fmul(py, detail_zoom), Fmul(pz, detail_zoom))
                   detail_color == from_hex(\hf5e6d3)
               IN  blend_colors(with_spot, detail_color,
                                Fmul(Fabs(detail_noise), FromRat(2, 10)))
          ELSE with_turbulence
   IN  spot(Eager(get_noise_3d(u.noise,
                     Fadd(Fmul(px, turbulence_zoom), Fmul(time, FromRat(3, 10))),
                     Fmul(Fmul(py, turbulence_zoom), FromRat(1, 2)),
                     Fmul(pz, turbulence_zoom)),
                  turbulence),
            Fsqrt(Fadd(Fpowi2(Fsub(px, spot_center_x)), Fpowi2(Fsub(py, spot_center_y)))))

gas_giant_shader(fragment, u) ==
   Color_mul(gas_giant_layers(fragment, u), fragment.intensity)

moon_shader(fragment, u) ==
   LET position == fragment.vertex_position
       px       == position[1]
       py       == position[2]
       pz       == position[3]
       base_color  == from_hex(\h9b9b9b)
       dark_color  == from_hex(\h6b6b6b)
       light_color == from_hex(\hc5c5c5)
       \* layer 2: terrain
       terrain_zoom == FromInt(8)
       terrain(terrain_noise) ==
          IF Fgt(terrain_noise, F0)
          THEN lerp_color(base_color, light_color, terrain_noise)
          ELSE lerp_color(base_color, dark_color, Fneg(terrain_noise))
       \* layer 3: craters
       crater_zoom == FromInt(10)
       craters(final_color, crater_noise) ==
          IF Fgt(crater_noise, FromRat(7, 10))
          THEN LET crater_depth == Fdiv(Fsub(crater_noise, FromRat(7, 10)), FromRat(3, 10))
                   crater_color == from_hex(\h4a4a4a)
               IN  blend_colors(final_color, crater_color, Fmul(crater_depth, FromRat(8, 10)))
          ELSE final_color
       \* layer 4: surface detail
       detail_zoom  == FromInt(25)
       detail_color == from_hex(\hb0b0b0)
       details(final_color, detail_noise) ==
          blend_colors(final_color, detail_color, Fmul(Fabs(detail_noise), FromRat(15, 100)))
       light_intensity == Fpowf(fragment.intensity, FromRat(8, 10))
   IN  Color_mul(
          details(craters(Eager(get_noise_3d(u.noise, Fmul(px, terrain_zoom),
                                             Fmul(py, terrain_zoom), Fmul(pz, terrain_zoom)),
                                terrain),
                          get_noise_3d(u.noise, Fadd(Fmul(px, crater_zoom), FromInt(500)),
                                       Fmul(py, crater_zoom), Fmul(pz, crater_zoom))),
                  get_noise_3d(u.noise, Fmul(px, detail_zoom),
                               Fmul(py, detail_zoom), Fmul(pz, detail_zoom))),
          light_intensity)

\* ------------------------------------------------------------------------
\* Fragment shader dispatcher
\* ------------------------------------------------------------------------

ShaderTypes == {"Sun", "RockyPlanet", "GasGiant", "Moon", "RingedPlanet"}

\* variant: RingedPlanet falls through to the moon shader
fragment_shader_fallthrough(fragment, u, st) ==
   CASE st = "Sun"          -> sun_shader(fragment, u)
     [] st = "RockyPlanet"  -> rocky_planet_shader(fragment, u)
     [] st = "GasGiant"     -> gas_giant_shader(fragment, u)
     [] OTHER               -> moon_shader(fragment, u)

fragment_shader(fragment, u, st) ==
   CASE st = "Sun"          -> sun_shader(fragment, u)
     [] st = "RockyPlanet"  -> rocky_planet_shader(fragment, u)
     [] st = "GasGiant"     -> gas_giant_shader(fragment, u)
     [] st = "Moon"         -> moon_shader(fragment, u)
     [] st = "RingedPlanet" -> gas_giant_shader(fragment, u)

\* FastNoiseLite values one fragment_shader call constructs
noise_constructed(st) == IF st = "RockyPlanet" THEN 1 ELSE 0

\* ------------------------------------------------------------------------
\* Vertex stage applied to drawn vertices and matrices
\* ------------------------------------------------------------------------

MaxEntry == 1

MaxVtx == 2

NoRet == [op |-> "none"]

\* a 4x4 matrix from its upper-left block (rows) and its translation column
MkMat4(B, tr) ==
   <<B[1][1], B[2][1], B[3][1], F0,
     B[1][2], B[2][2], B[3][2], F0,
     B[1][3], B[2][3], B[3][3], F0,
     tr[1], tr[2], tr[3], F1>>

Mat4_identity == MkMat4(Mat3_identity, <<F0, F0, F0>>)

\* blocks [[a, b, 0], [c, d, 0], [0, 0, s]] with small integer entries
IntBlocks ==
   {Mat3_new(FromInt(a), FromInt(b), F0, FromInt(c), FromInt(d), F0, F0, F0, FromInt(s)) :
       a \in (-1)..MaxEntry, b \in (-1)..MaxEntry, c \in (-1)..MaxEntry,
       d \in (-1)..MaxEntry, s \in 1..2}

\* a block whose third row is four times its first
ScaledRowBlock ==
   Mat3_new(FromRat(3, 10), FromRat(2, 10), FromInt(2),
            FromRat(1, 2),  FromRat(7, 10), FromInt(3),
            FromRat(12, 10), FromRat(8, 10), FromInt(8))

ModelMatrices ==
   {MkMat4(B, IF B[3][3] = F1 THEN <<F0, F0, F0>> ELSE <<FromInt(1), FromInt(2), FromInt(3)>>) :
       B \in IntBlocks \cup {ScaledRowBlock}}

ViewMatrices == {Mat4_identity, MkMat4(Mat3_identity, <<F0, F0, FromInt(-5)>>)}

\* identity, or a projection whose w row is (0, 0, 1, 16)
ProjectionMatrices ==
   {Mat4_identity,
    <<F1, F0, F0, F0,  F0, F1, F0, F0,  F0, F0, F1, F1,  F0, F0, F0, FromInt(16)>>}

ViewportMatrices ==
   {Mat4_identity,
    MkMat4(Mat3_new(FromInt(400), F0, F0, F0, FromInt(-300), F0, F0, F0, F1),
           <<FromInt(400), FromInt(300), F0>>)}

VertexOf(i) ==
   [position             |-> <<FromRat(i, 10), FromRat(-5 * i, 2), FromInt(3 - i)>>,
    normal               |-> <<FromRat(3 * i, 5), FromInt(1 - i), FromRat(i * i, 5)>>,
    tex_coords           |-> <<FromRat(i, 4), FromRat(4 - i, 4)>>,
    color                |-> Color_new(10 * i, 255 - i, 3),
    transformed_position |-> <<F0, F0, F0>>,
    transformed_normal   |-> <<F0, F0, F0>>]

Vertices == {VertexOf(i) : i \in 0..MaxVtx}

InitVertex ==
   /\ vertex \in Vertices
   /\ \E mm \in ModelMatrices, vm \in ViewMatrices, pm \in ProjectionMatrices,
         vp \in ViewportMatrices :
         uniforms = Uniforms_new(mm, vm, pm, vp, F0)
   /\ vertex_ret = NoRet
   /\ shader_type = "Sun"
   /\ shaded = <<>>
   /\ noise_built = 1
   /\ col_a = Black
   /\ col_b = Black
   /\ fac1 = F0
   /\ fac2 = F0
   /\ color_ret = NoRet

VertexShader ==
   /\ vertex_ret.op = "none"
   /\ vertex_ret' = [op |-> "vertex_shader", out |-> vertex_shader(vertex, uniforms)]
   /\ UNCHANGED <<vertex, uniforms, col_a, col_b, fac1, fac2, color_ret, shader_type, shaded, noise_built>>

NextVertex == VertexShader

SpecVertex == InitVertex /\ [][NextVertex]_vars

\* ------------------------------------------------------------------------
\* Colour helpers applied to drawn inputs
\* ------------------------------------------------------------------------

MaxChan == 2

FactorSlack == 1

ChanVals == {IF i = MaxChan THEN 255 ELSE 3 * i : i \in 0..MaxChan}

Colors == {Color_new(r, g, b) : r \in ChanVals, g \in ChanVals, b \in ChanVals}

Factors == {FromRat(k, 10) : k \in (-FactorSlack)..(10 + FactorSlack)}

InitColor ==
   /\ vertex = VertexOf(0)
   /\ uniforms = Uniforms_new(Mat4_identity, Mat4_identity, Mat4_identity, Mat4_identity, F0)
   /\ vertex_ret = NoRet
   /\ shader_type = "Sun"
   /\ shaded = <<>>
   /\ noise_built = 1
   /\ col_a \in Colors
   /\ col_b \in Colors
   /\ fac1 \in Factors
   /\ fac2 \in Factors
   /\ Fle(fac1, fac2)
   /\ color_ret = NoRet

LerpColor ==
   /\ color_ret.op = "none"
   /\ color_ret' = [op |-> "lerp_color", out |-> lerp_color(col_a, col_b, fac1)]
   /\ UNCHANGED <<col_a, col_b, fac1, fac2, vertex, uniforms, vertex_ret, shader_type, shaded, noise_built>>

BlendColors ==
   /\ color_ret.op = "none"
   /\ color_ret' = [op |-> "blend_colors",
                    out  |-> blend_colors(col_a, col_b, fac1),
                    out2 |-> blend_colors(col_a, col_b, fac2)]
   /\ UNCHANGED <<col_a, col_b, fac1, fac2, vertex, uniforms, vertex_ret, shader_type, shaded, noise_built>>

NextColor == LerpColor \/ BlendColors

SpecColor == InitColor /\ [][NextColor]_vars

\* ------------------------------------------------------------------------
\* One draw call: Uniforms::new, then fragment_shader on fragments in any order
\* ------------------------------------------------------------------------

MaxFrag == 5

MaxTime == 1

MaxShaded == 2

\* surface positions, in tenths
PosTable ==
   <<(<<3, 2, 9>>), (<<0, -10, 0>>), (<<10, 0, 0>>), (<<2, 1, 3>>), (<<-6, -3, 7>>),
     (<<0, 9, 4>>), (<<5, 5, -7>>), (<<0, 0, 0>>)>>

PosOf(i) == <<FromRat(PosTable[i][1], 10), FromRat(PosTable[i][2], 10), FromRat(PosTable[i][3], 10)>>

\* light intensities: half and full light
Intensities == {FromRat(1, 2), F1}

Times == {FromRat(5 * k, 2) : k \in 0..MaxTime}

\* the i-th fragment of the draw call: odd ones in full light, even ones in half
FragmentOf(i) ==
   [vertex_position |-> PosOf(i), intensity |-> IF i % 2 = 1 THEN F1 ELSE FromRat(1, 2)]

Fragments == {FragmentOf(i) : i \in 1..MaxFrag}

Init ==
   /\ \E time \in Times :
         uniforms = Uniforms_new(Mat4_identity, Mat4_identity, Mat4_identity, Mat4_identity, time)
   /\ noise_built = 1
   /\ shader_type \in ShaderTypes
   /\ shaded = <<>>
   /\ vertex = VertexOf(0)
   /\ vertex_ret = NoRet
   /\ col_a = Black
   /\ col_b = Black
   /\ fac1 = F0
   /\ fac2 = F0
   /\ color_ret = NoRet

FragmentShader ==
   /\ Len(shaded) < MaxShaded
   /\ \E fragment \in Fragments :
         shaded' = Append(shaded, [fragment |-> fragment,
                                   color    |-> fragment_shader(fragment, uniforms, shader_type)])
   /\ noise_built' = noise_built + noise_constructed(shader_type)
   /\ UNCHANGED <<uniforms, shader_type, vertex, vertex_ret, col_a, col_b, fac1, fac2, color_ret>>

Next == FragmentShader

Spec == Init /\ [][Next]_vars

\* ------------------------------------------------------------------------
\* Properties
\* ------------------------------------------------------------------------

Abs(n) == IF n < 0 THEN -n ELSE n

Within1(c, d) == Abs(c.r - d.r) <= 1 /\ Abs(c.g - d.g) <= 1 /\ Abs(c.b - d.b) <= 1

\* C1: lerp_color(a, b, t) is a (within one unit per channel) when t clamps
\* to 0 and b when t clamps to 1.
C1_LerpEndpoints ==
   color_ret.op = "lerp_color" =>
      /\ Fle(fac1, F0) => Within1(color_ret.out, col_a)
      /\ Fle(F1, fac1) => Within1(color_ret.out, col_b)

\* C10: for factors fac1 <= fac2, on every channel where the overlay is not
\* below the base, blend_colors at fac1 is not above blend_colors at fac2;
\* a factor that clamps to 0 returns the base.
C10_BlendMonotonic ==
   color_ret.op = "blend_colors" =>
      /\ col_b.r >= col_a.r => color_ret.out.r <= color_ret.out2.r
      /\ col_b.g >= col_a.g => color_ret.out.g <= color_ret.out2.g
      /\ col_b.b >= col_a.b => color_ret.out.b <= color_ret.out2.b
      /\ Fle(fac1, F0) => color_ret.out = col_a

\* the upper-left 3x3 block of the model matrix, row by row
ModelBlock(u) ==
   [r \in 1..3 |-> [c \in 1..3 |-> Mat4At(u.model_matrix, r - 1, c - 1)]]

\* some row is an exact multiple (0, +-1, +-2, +-4) of another: the block is singular
RowsProportional(B) ==
   \E i \in 1..3, j \in 1..3, k \in {0, 1, -1, 2, -2, 4, -4} :
      /\ i # j
      /\ \A c \in 1..3 : B[i][c] = Fmul(FromInt(k), B[j][c])

\* C3: when the block M of the model matrix is invertible, transformed_normal
\* is inverse(transpose(M)) applied to the normal.
C3_NormalByInverseTranspose ==
   LET inv == Mat3_try_inverse(Mat3_transpose(ModelBlock(uniforms)))
   IN  (vertex_ret.op = "vertex_shader" /\ inv.some /\ ~RowsProportional(ModelBlock(uniforms)))
          => vertex_ret.out.transformed_normal = Mat3MulVec(inv.val, vertex.normal)

\* C4: when the block of the model matrix is singular, the normal matrix is
\* the identity: transformed_normal is the input normal.
C4_SingularFallsBack ==
   (vertex_ret.op = "vertex_shader" /\ RowsProportional(ModelBlock(uniforms)))
      => vertex_ret.out.transformed_normal = vertex.normal

AllIdentity(u) ==
   /\ u.model_matrix = Mat4_identity
   /\ u.view_matrix = Mat4_identity
   /\ u.projection_matrix = Mat4_identity
   /\ u.viewport_matrix = Mat4_identity

\* C5: with identity model, view, projection and viewport matrices the
\* transformed position is the input position, and position, normal,
\* tex_coords and color are those of the input vertex.
C5_IdentityKeepsPosition ==
   (vertex_ret.op = "vertex_shader" /\ AllIdentity(uniforms)) =>
      /\ vertex_ret.out.transformed_position = vertex.position
      /\ vertex_ret.out.position = vertex.position
      /\ vertex_ret.out.normal = vertex.normal
      /\ vertex_ret.out.tex_coords = vertex.tex_coords
      /\ vertex_ret.out.color = vertex.color

C5_Witness ==
   /\ vertex_ret.op = "vertex_shader"
   /\ AllIdentity(uniforms)
   /\ vertex = VertexOf(1)

\* C2: fragment_shader routes Sun, RockyPlanet, GasGiant and Moon to their
\* own shader, and RingedPlanet gets exactly the GasGiant colour.
C2_RingedIsGasGiant ==
   \A i \in 1..Len(shaded) :
      LET f == shaded[i].fragment
          c == shaded[i].color
      IN  /\ shader_type = "RingedPlanet" => c = fragment_shader(f, uniforms, "GasGiant")
          /\ shader_type = "Sun" => c = sun_shader(f, uniforms)
          /\ shader_type = "RockyPlanet" => c = rocky_planet_shader(f, uniforms)
          /\ shader_type = "GasGiant" => c = gas_giant_shader(f, uniforms)
          /\ shader_type = "Moon" => c = moon_shader(f, uniforms)

C2_Witness == shader_type = "RingedPlanet" /\ Len(shaded) = MaxShaded

\* C6: no fragment_shader call constructs a noise field: the number of
\* fields built does not change after Uniforms::new.
C6_NoFieldBuiltPerFragment == [][noise_built' = noise_built]_vars

WithIntensity(f, li) == [f EXCEPT !.intensity = li]

\* C8: the Sun colour is the same for every light intensity; the RockyPlanet
\* and GasGiant colours are the full-light colour times the intensity.
C8_SunIgnoresIntensity ==
   \A i \in 1..Len(shaded) :
      LET f == shaded[i].fragment
          c == shaded[i].color
      IN  /\ shader_type = "Sun" =>
                \A li \in Intensities : sun_shader(WithIntensity(f, li), uniforms) = c
          /\ shader_type = "RockyPlanet" =>
                c = Color_mul(rocky_planet_shader(WithIntensity(f, F1), uniforms), f.intensity)
          /\ shader_type = "GasGiant" =>
                c = Color_mul(gas_giant_shader(WithIntensity(f, F1), uniforms), f.intensity)

C8_Witness ==
   /\ shader_type = "Sun"
   /\ Len(shaded) >= 1
   /\ shaded[1].fragment.intensity # F1
   /\ shaded[1].color # Black

\* C9: the band value of gas_giant_shader is the sine of the 2D noise sample
\* at (y * 15, time * 0.1), mapped to [0, 1].
C9_BandPhaseIsNoise ==
   \A i \in 1..Len(shaded) :
      shader_type \in {"GasGiant", "RingedPlanet"} =>
         gas_band_value(shaded[i].fragment, uniforms)
            = Fmul(Fadd(Fsin(gas_band_noise(shaded[i].fragment, uniforms)), F1), FromRat(1, 2))

====
